---- MODULE Spec2Model ----
(***************************************************************************)
(* Model of jquants_downloader.py: myjquants.save_quotes and its helpers   *)
(* load_data, check_df_range and fetch_daily_quotes.                       *)
(*                                                                         *)
(* A calendar date is a day number in 1..MaxDay (the code only ever passes *)
(* dates through to the vendor and takes min/max of the Date column).      *)
(* A DataFrame is the sequence of its rows; a row is [Date, src], src      *)
(* telling the pickle file ("past") from the vendor ("api") as the origin  *)
(* of the row's opaque price fields.  The empty sequence is the frame      *)
(* pd.DataFrame([]) : no rows and no 'Date' column.                        *)
(***************************************************************************)
EXTENDS Integers, Sequences, FiniteSets, TLC

\* Number of calendar days of the model.
MaxDay == 4

\* Python's None for st / end (an open bound of the requested range).
None == 0

Days == 1..MaxDay

VARIABLES
    V,              \* the vendor's trading days for `code`
    st, end,        \* arguments of save_quotes (None or a day)
    load,           \* load_data_path: "none" (None), "missing", "file"
    file,           \* the frame pickled at load_data_path
    dump_data_path, \* TRUE iff the argument is not None
    pc,             \* position inside save_quotes
    locals,         \* names of the local variables bound so far
    df_past, first, last, df_before, df_after, df,
    fetched_before, \* what the request of line 111 answered: [mode, rows]
    fetched_after,  \* what the request of line 118 answered: [mode, rows]
    requests,       \* the (from, to) requests sent to the vendor, in order
    raised,         \* exception that left save_quotes, "none" if none
    dump_file,      \* the frame pickled at dump_data_path
    writes,         \* number of pickle.dump calls so far
    run,            \* 1: first call, 2: call on the first call's dump
    prev            \* the first call's dump and whether its fetches were regular

vars == <<V, st, end, load, file, dump_data_path, pc, locals, df_past, first,
          last, df_before, df_after, df, fetched_before, fetched_after,
          requests, raised, dump_file, writes, run, prev>>

----------------------------------------------------------------------------
\* Pure helpers

Min(S) == CHOOSE m \in S : \A x \in S : m <= x
Max(S) == CHOOSE m \in S : \A x \in S : m >= x

RECURSIVE Rows(_, _)
\* The rows dated by the days of S in ascending order, all of origin src.
Rows(S, src) ==
    IF S = {} THEN <<>>
    ELSE LET m == Min(S) IN <<[Date |-> m, src |-> src]>> \o Rows(S \ {m}, src)

DateCol(frame) == {frame[i].Date : i \in DOMAIN frame}

StrictlyIncreasing(frame) ==
    \A i \in 1..(Len(frame) - 1) : frame[i].Date < frame[i + 1].Date

CountDate(frame, d) == Cardinality({i \in DOMAIN frame : frame[i].Date = d})

\* Trading days the vendor holds inside the inclusive range (from, to);
\* None leaves that side open.
InRange(from, to) ==
    {d \in V : (from = None \/ d >= from) /\ (to = None \/ d <= to)}

FetchModes == {"in_range", "out_of_range", "error"}

\* fetch_daily_quotes: the frame built from the response's daily_quotes.
\* The code takes the array as it comes: "in_range" is the vendor honouring
\* from/to, "out_of_range" the vendor answering with every row it holds.
\* ("error" is raise_for_status / a transport failure, handled by callers.)
fetch_daily_quotes(mode, from, to) ==
    IF mode = "in_range" THEN Rows(InRange(from, to), "api") ELSE Rows(V, "api")

\* check_df_range
check_df_range(frame) == <<Min(DateCol(frame)), Max(DateCol(frame))>>

\* Mutant: the boundary row is kept.
DropLastKept(frame) == frame

\* df.drop(df.index[-1])
DropLast(frame) == SubSeq(frame, 1, Len(frame) - 1)

\* df.drop(df.index[0])
DropFirst(frame) == SubSeq(frame, 2, Len(frame))

\* Mutant: the cached rows are put first.
Concat3PastFirst(a, b, c) == b \o a \o c

\* pd.concat([df_before, df_past, df_after], ignore_index=True)
Concat3(a, b, c) == a \o b \o c

\* Mutant: a missing path is taken for a present one.
PathExistsAlways(l) == TRUE

\* os.path.exists(load_data_path)
PathExists(l) == l = "file"

NoFetch == [mode |-> "none", rows |-> <<>>]

----------------------------------------------------------------------------
\* State machine

Init ==
    /\ V \in SUBSET Days
    /\ st \in {None} \cup Days
    /\ end \in {None} \cup Days
    /\ load \in {"none", "missing", "file"}
    /\ file \in IF load = "file" THEN {Rows(S, "past") : S \in SUBSET Days}
                ELSE {<<>>}
    /\ dump_data_path \in BOOLEAN
    /\ pc = "start"
    /\ locals = {}
    /\ df_past = <<>> /\ first = None /\ last = None
    /\ df_before = <<>> /\ df_after = <<>> /\ df = <<>>
    /\ fetched_before = NoFetch /\ fetched_after = NoFetch
    /\ requests = <<>>
    /\ raised = "none"
    /\ dump_file = <<>> /\ writes = 0
    /\ run = 1
    /\ prev = [frame |-> <<>>, regular |-> TRUE]

\* A fetch answered as the vendor contract says (all rows of the range).
Regular(f, from, to) ==
    /\ f.mode # "error"
    /\ f.rows = Rows(InRange(from, to), "api")

\* Lines 94-96: load_data and check_df_range.
Load ==
    /\ pc = "start"
    /\ UNCHANGED <<V, st, end, load, file, dump_data_path, df_before, df_after,
                   df, fetched_before, fetched_after, requests, dump_file,
                   writes, run, prev>>
    /\ IF load = "none"
       THEN /\ pc' = "fetch_all"
            /\ UNCHANGED <<locals, df_past, first, last, raised>>
       ELSE IF ~PathExists(load)
       THEN /\ raised' = "NoFileError" /\ pc' = "done"
            /\ UNCHANGED <<locals, df_past, first, last>>
       ELSE IF file = <<>>
       THEN \* df['Date'] on a frame without that column
            /\ df_past' = file /\ locals' = locals \cup {"df_past"}
            /\ raised' = "KeyError" /\ pc' = "done"
            /\ UNCHANGED <<first, last>>
       ELSE /\ df_past' = file
            /\ first' = check_df_range(file)[1]
            /\ last' = check_df_range(file)[2]
            /\ locals' = locals \cup {"df_past", "first", "last"}
            /\ pc' = "before"
            /\ UNCHANGED raised

\* Lines 110-115: the request for the days up to the cached first date.
FetchBefore ==
    /\ pc = "before"
    /\ UNCHANGED <<V, st, end, load, file, dump_data_path, df_past, first, last,
                   df_after, df, fetched_after, dump_file, writes, run, prev>>
    /\ requests' = Append(requests, <<st, first>>)
    /\ \E mode \in FetchModes :
         IF mode = "error"
         THEN /\ fetched_before' = [mode |-> mode, rows |-> <<>>]
              /\ df_before' = <<>>
              /\ locals' = locals \cup {"df_before"}
              /\ pc' = "after"
              /\ UNCHANGED raised
         ELSE LET rows == fetch_daily_quotes(mode, st, first) IN
              /\ fetched_before' = [mode |-> mode, rows |-> rows]
              /\ locals' = locals \cup {"df_before"}
              /\ IF rows = <<>>
                 THEN \* df_before.index[-1] of an empty index
                      /\ df_before' = rows
                      /\ raised' = "IndexError" /\ pc' = "done"
                 ELSE /\ df_before' = DropLast(rows)
                      /\ pc' = "after"
                      /\ UNCHANGED raised

\* Lines 117-122: the request for the days from the cached last date on.
FetchAfter ==
    /\ pc = "after"
    /\ UNCHANGED <<V, st, end, load, file, dump_data_path, df_past, first, last,
                   df, fetched_before, dump_file, writes, run, prev>>
    /\ requests' = Append(requests, <<last, end>>)
    /\ \E mode \in FetchModes :
         IF mode = "error"
         THEN \* line 120 assigns df_before; df_after stays unbound
              /\ fetched_after' = [mode |-> mode, rows |-> <<>>]
              /\ df_before' = <<>>
              /\ pc' = "concat"
              /\ UNCHANGED <<df_after, locals, raised>>
         ELSE LET rows == fetch_daily_quotes(mode, last, end) IN
              /\ fetched_after' = [mode |-> mode, rows |-> rows]
              /\ locals' = locals \cup {"df_after"}
              /\ UNCHANGED df_before
              /\ IF rows = <<>>
                 THEN \* df_after.index[0] of an empty index
                      /\ df_after' = rows
                      /\ raised' = "IndexError" /\ pc' = "done"
                 ELSE /\ df_after' = DropFirst(rows)
                      /\ pc' = "concat"
                      /\ UNCHANGED raised

\* Line 124.
Concat ==
    /\ pc = "concat"
    /\ UNCHANGED <<V, st, end, load, file, dump_data_path, df_past, first, last,
                   df_before, df_after, fetched_before, fetched_after,
                   requests, dump_file, writes, run, prev>>
    /\ IF "df_after" \notin locals
       THEN /\ raised' = "UnboundLocalError" /\ pc' = "done"
            /\ UNCHANGED <<df, locals>>
       ELSE /\ df' = Concat3(df_before, df_past, df_after)
            /\ locals' = locals \cup {"df"}
            /\ pc' = "dump"
            /\ UNCHANGED raised

\* Line 128: no past data, one request for (st, end).
FetchAll ==
    /\ pc = "fetch_all"
    /\ UNCHANGED <<V, st, end, load, file, dump_data_path, df_past, first, last,
                   df_before, df_after, fetched_after, dump_file, writes, run,
                   prev>>
    /\ requests' = Append(requests, <<st, end>>)
    /\ \E mode \in FetchModes :
         IF mode = "error"
         THEN /\ fetched_before' = [mode |-> mode, rows |-> <<>>]
              /\ raised' = "RequestException" /\ pc' = "done"
              /\ UNCHANGED <<df, locals>>
         ELSE /\ fetched_before' =
                    [mode |-> mode, rows |-> fetch_daily_quotes(mode, st, end)]
              /\ df' = fetch_daily_quotes(mode, st, end)
              /\ locals' = locals \cup {"df"}
              /\ pc' = "dump"
              /\ UNCHANGED raised

\* Lines 131-135: pickle the frame and return it.
Dump ==
    /\ pc = "dump"
    /\ UNCHANGED <<V, st, end, load, file, dump_data_path, locals, df_past,
                   first, last, df_before, df_after, df, fetched_before,
                   fetched_after, requests, raised, run, prev>>
    /\ IF dump_data_path
       THEN dump_file' = df /\ writes' = writes + 1
       ELSE UNCHANGED <<dump_file, writes>>
    /\ pc' = "done"

\* Whether every fetch of the call that just ended was answered regularly.
RegularCall ==
    IF load = "none" THEN Regular(fetched_before, st, end)
    ELSE /\ Regular(fetched_before, st, first)
         /\ Regular(fetched_after, last, end)

\* The caller runs save_quotes again with the same code, st and end,
\* load_data_path naming the file the first call dumped.
Rerun ==
    /\ pc = "done" /\ run = 1 /\ raised = "none" /\ dump_data_path
    /\ run' = 2
    /\ prev' = [frame |-> dump_file, regular |-> RegularCall]
    /\ load' = "file" /\ file' = dump_file
    /\ pc' = "start"
    /\ locals' = {}
    /\ df_past' = <<>> /\ first' = None /\ last' = None
    /\ df_before' = <<>> /\ df_after' = <<>> /\ df' = <<>>
    /\ fetched_before' = NoFetch /\ fetched_after' = NoFetch
    /\ requests' = <<>>
    /\ UNCHANGED <<V, st, end, dump_data_path, raised, dump_file, writes>>

Next ==
    \/ Load
    \/ FetchBefore
    \/ FetchAfter
    \/ Concat
    \/ FetchAll
    \/ Dump
    \/ Rerun

Spec == Init /\ [][Next]_vars

----------------------------------------------------------------------------
\* Shorthands for the claims

Returned == pc = "done" /\ raised = "none"

Answered(f) == f.mode \in {"in_range", "out_of_range"}

\* A fetch that, if it was answered at all, was answered as the vendor
\* contract says.
AsContract(f, from, to) ==
    Answered(f) => f.rows = Rows(InRange(from, to), "api")

\* before-without-its-last-row, then past, then after-without-its-first-row,
\* written out index by index.
Splice(b, p, a) ==
    LET nb == IF Len(b) = 0 THEN 0 ELSE Len(b) - 1
        na == IF Len(a) = 0 THEN 0 ELSE Len(a) - 1
    IN [i \in 1..(nb + Len(p) + na) |->
          IF i <= nb THEN b[i]
          ELSE IF i <= nb + Len(p) THEN p[i - nb]
          ELSE a[i - nb - Len(p) + 1]]

----------------------------------------------------------------------------
\* C1 (no-duplicate invariant): a call with load_data_path set that returns,
\* on a strictly increasing cached frame and with every answered request
\* answered by exactly the vendor's rows of the inclusive range, returns a
\* frame whose dates are strictly increasing (hence unique).
C1_NoDuplicate ==
    (/\ Returned /\ load = "file"
     /\ StrictlyIncreasing(df_past)
     /\ AsContract(fetched_before, st, first)
     /\ AsContract(fetched_after, last, end))
    => StrictlyIncreasing(df)

\* A returned sandwich in which both boundary duplicates were fetched and
\* both sides contributed rows.
C1_Witness ==
    /\ Returned /\ load = "file" /\ run = 1
    /\ Len(df_past) >= 2
    /\ Regular(fetched_before, st, first) /\ Regular(fetched_after, last, end)
    /\ fetched_before.rows[Len(fetched_before.rows)].Date = first
    /\ fetched_after.rows[1].Date = last
    /\ Len(df_before) >= 1 /\ Len(df_after) >= 1

\* Both fetches answered with at least one row, and the call has ended.
C2_Case ==
    /\ pc = "done" /\ load = "file"
    /\ Answered(fetched_before) /\ fetched_before.rows # <<>>
    /\ Answered(fetched_after) /\ fetched_after.rows # <<>>

C2_Exact ==
    /\ raised = "none"
    /\ df = Splice(fetched_before.rows, df_past, fetched_after.rows)

C2_OnceAndSpan ==
    /\ CountDate(df, first) = 1
    /\ CountDate(df, last) = 1
    /\ df[1].Date = fetched_before.rows[1].Date
    /\ df[Len(df)].Date = fetched_after.rows[Len(fetched_after.rows)].Date

\* The boundary rows are the over-fetched duplicates and all three blocks
\* are strictly increasing.
C2_Boundary ==
    /\ StrictlyIncreasing(df_past)
    /\ StrictlyIncreasing(fetched_before.rows)
    /\ StrictlyIncreasing(fetched_after.rows)
    /\ fetched_before.rows[Len(fetched_before.rows)].Date = first
    /\ fetched_after.rows[1].Date = last

C3_SoftFailAfter ==
    (/\ pc = "done" /\ load = "file"
     /\ Answered(fetched_before) /\ fetched_after.mode = "error")
    => (/\ raised = "none"
        /\ df = Splice(fetched_before.rows, df_past, <<>>))

\* C4 (soft-fail, before side): when the before fetch fails and the after
\* fetch is answered, the call returns the cached frame followed by
\* after-minus-first-row.
C4_SoftFailBefore ==
    (/\ pc = "done" /\ load = "file"
     /\ fetched_before.mode = "error" /\ Answered(fetched_after))
    => (/\ raised = "none"
        /\ df = Splice(<<>>, df_past, fetched_after.rows))

\* C5 (no silent fetch failure): a call in which a fetch failed does not end
\* like a clean call; the only channel save_quotes has to its caller besides
\* the frame is an exception, so the call must not return normally.
C5_FailureReported ==
    (/\ pc = "done"
     /\ (fetched_before.mode = "error" \/ fetched_after.mode = "error"))
    => raised # "none"

\* C6 (skip correctness): when end <= last cached date, no request for the
\* days after the cache is sent and the call returns with the cached rows
\* closing the frame, unchanged.  (Stated for calls whose before fetch was
\* answered with rows, so that nothing but the after side is in question.)
C6_Skip ==
    (/\ pc = "done" /\ load = "file" /\ "last" \in locals
     /\ end # None /\ end <= last
     /\ Regular(fetched_before, st, first) /\ fetched_before.rows # <<>>)
    => (/\ fetched_after.mode = "none"
        /\ \A i \in DOMAIN requests : requests[i] # <<last, end>>
        /\ raised = "none"
        /\ Len(df) >= Len(df_past)
        /\ SubSeq(df, Len(df) - Len(df_past) + 1, Len(df)) = df_past)

\* C7 (post-condition always checked): a merged frame that is returned or
\* pickled never has a duplicate or descending Date.
C7_PostCondition ==
    /\ (load = "file" /\ pc \in {"dump", "done"} /\ "df" \in locals)
         => StrictlyIncreasing(df)
    /\ (load = "file" /\ writes > 0) => StrictlyIncreasing(dump_file)

\* C8 (idempotence): the second call, on the first call's dump with the
\* same st and end and every fetch of both calls answered as the contract
\* says, returns and pickles the very frame the first call pickled.
C8_Idempotent ==
    (/\ run = 2 /\ pc = "done" /\ prev.regular
     /\ fetched_before.mode # "error" /\ fetched_after.mode # "error"
     /\ AsContract(fetched_before, st, first)
     /\ AsContract(fetched_after, last, end))
    => (/\ raised = "none"
        /\ dump_file = prev.frame)

\* C9 (missing cache): a load_data_path that does not exist ends the call
\* with NoFileError, no request sent and nothing pickled; without a
\* load_data_path exactly one request (st, end) is sent and what it answers
\* is the frame returned (and pickled when asked).
C9_MissingCache ==
    /\ (load = "missing" /\ pc # "start")
         => (/\ pc = "done" /\ raised = "NoFileError"
             /\ requests = <<>> /\ writes = 0)
    /\ load = "missing" => (requests = <<>> /\ writes = 0)
    /\ (load = "none" /\ pc = "done")
         => (/\ requests = << <<st, end>> >>
             /\ raised = (IF fetched_before.mode = "error"
                          THEN "RequestException" ELSE "none")
             /\ raised = "none" => /\ df = fetched_before.rows
                                   /\ dump_data_path => dump_file = df)

C9_Witness ==
    /\ load = "missing" /\ pc = "done" /\ raised = "NoFileError"
    /\ dump_data_path /\ V # {}

\* C10 (empty fetch result): a fetch answered with no rows lets the call
\* return, that side contributing nothing.
C10_EmptyFetch ==
    (/\ pc = "done" /\ load = "file"
     /\ fetched_before.mode # "error" /\ fetched_after.mode # "error"
     /\ \/ Answered(fetched_before) /\ fetched_before.rows = <<>>
        \/ Answered(fetched_after) /\ fetched_after.rows = <<>>)
    => raised = "none"

====
